---- MODULE Spec2Model ----
(***************************************************************************)
(* ZMFH resolver (src/src/zmfh/resolver/resolve.py) and the origin ledger  *)
(* (src/src/zmfh/runtime/origins_cache.py) as a state machine.             *)
(*                                                                         *)
(* Paths are sequences of path segments, so "lies under" is the segment    *)
(* prefix relation that p == r or p.startswith(r + os.sep) computes on     *)
(* normalized absolute paths.  The disk maps every path to 0 (absent), a   *)
(* negative number (a directory) or a positive content version (a regular  *)
(* file).  An optional value is a sequence of length 0 (None) or 1.        *)
(***************************************************************************)
EXTENDS Integers, Sequences, FiniteSets, TLC

VARIABLES
    disk,       \* the filesystem: path -> 0 | -1 (directory) | 1..MaxVer
    hostcfg,    \* the host's configuration: its search path and built-in names
    nobuild,    \* candidates paths for which make_spec returns None
    cache,      \* zmfh.registry.cache: name -> option of Cached(candidate, fp)
    observed,   \* zmfh.registry.cache: name -> option of Observed candidate
    memo,       \* zmfh.registry.index: index key -> option of snapshot
    last,       \* the last completed resolve() call: arguments, outcome, probes
    since,      \* what the environment did since the last completed call
    nenv,       \* number of environment changes made
    frames,     \* the resolve() call of each thread of the interleaved runs
    held,       \* the locks each thread holds between its steps
    nested,     \* the threads whose call runs nested inside the other's call
    nbegin,     \* number of interleaved calls begun
    LAST,       \* origins_cache._LAST: name -> option of recorded path
    lastq       \* the last vanished_under_roots() query, and what record() was told

vars == <<disk, hostcfg, nobuild, cache, observed, memo, last, since, nenv,
          frames, held, nested, nbegin, LAST, lastq>>

----------------------------------------------------------------------------
(* Bounds of the model *)

MaxVer == 2
MaxEnv == 2
MaxFilesArg == 4
MaxBegin == 2
MaxRaceEnv == 3

----------------------------------------------------------------------------
(* The universe: two roots, three candidate files for "foo", one for "bar" *)

None == <<>>
Some(x) == <<x>>

R1 == <<"r1">>
R2 == <<"r2">>
Roots == {R1, R2}

FooPy == <<"r1", "foo.py">>
FooPkg == <<"r1", "foo", "__init__.py">>
BarPy == <<"r1", "bar.py">>
FooPy2 == <<"r2", "foo.py">>

\* the files in the order a directory walk meets them
FileSeq == <<BarPy, FooPy, FooPkg, FooPy2>>
Files == {FileSeq[i] : i \in 1..Len(FileSeq)}
AllPaths == Files \cup Roots

TopNames == {"foo", "bar"}
Names == TopNames \cup {"foo.sub"}

ExcludeNone == {}

\* sorted() on path strings: the lexicographic order of the strings
\* "/r1/bar.py" < "/r1/foo.py" < "/r1/foo/__init__.py" < "/r2/foo.py"
LexOrder == <<BarPy, FooPy, FooPkg, FooPy2>>

Rank(p) == CHOOSE i \in 1..Len(LexOrder) : LexOrder[i] = p

----------------------------------------------------------------------------
(* Values *)

Candidate(kind, path, package_dir) ==
    [kind |-> kind, path |-> path, package_dir |-> package_dir]

CacheEntry(candidate, fp) == [candidate |-> candidate, fp |-> fp]

UNHANDLED ==
    [type |-> "Unhandled", fullname |-> "", candidate |-> None, spec |-> None,
     last_known_paths |-> <<>>, managed |-> FALSE]

Resolved(fullname, candidate, spec, managed) ==
    [type |-> "Resolved", fullname |-> fullname, candidate |-> Some(candidate),
     spec |-> Some(spec), last_known_paths |-> <<>>, managed |-> managed]

Deleted(fullname, last_known_paths, managed) ==
    [type |-> "Deleted", fullname |-> fullname, candidate |-> None, spec |-> None,
     last_known_paths |-> last_known_paths, managed |-> managed]

\* a host descriptor: origin is a file path, or the built-in / frozen sentinel,
\* or absent (getattr(spec, "origin", None) is None)
HostSpec(tag, path) == [tag |-> tag, path |-> path]

----------------------------------------------------------------------------
(* The filesystem as the code reads it *)

\* os.path.exists
Exists(d, p) == p \in DOMAIN d /\ d[p] # 0

IsFile(d, p) == p \in DOMAIN d /\ d[p] > 0

\* os.path.abspath on an absolute path: "." segments are collapsed
_norm_abs(p) == SelectSeq(p, LAMBDA s : s # ".")

\* os.path.dirname
Dirname(p) == SubSeq(p, 1, Len(p) - 1)

RootOf(p) == SubSeq(p, 1, 1)

IsPrefix(r, p) == Len(p) >= Len(r) /\ SubSeq(p, 1, Len(r)) = r

\* p == r or p.startswith(r + os.sep), after os.path.normcase (the identity
\* on a case-sensitive filesystem)
_is_under_any(path_abs, roots_cmp) ==
    \E i \in 1..Len(roots_cmp) :
        \/ path_abs = roots_cmp[i]
        \/ Len(path_abs) > Len(roots_cmp[i]) /\ IsPrefix(roots_cmp[i], path_abs)

\* roots = list(policy.roots) if policy.roots else [root]; empty entries skipped
_roots(policy, root) ==
    LET roots == IF policy.roots # <<>> THEN policy.roots ELSE <<root>>
        kept == SelectSeq(roots, LAMBDA r : r # <<>>)
    IN  [i \in 1..Len(kept) |-> _norm_abs(kept[i])]

----------------------------------------------------------------------------
(* Collaborators whose code is outside the shown sources *)

\* keyspace.is_supported_fullname: only top-level names are rescued
is_supported_fullname(fullname) == fullname \in TopNames

\* policy.decision.decide: a pure function of (name, policy)
decide(fullname, policy) ==
    [handle |-> fullname \notin policy.deny,
     managed |-> fullname \in policy.managed]

\* verify.verify_candidate: ok iff a regular file is at the candidate's path
\* (and, for a package, it is the __init__.py of package_dir); fp is the
\* content version
verify_candidate(d, cand) ==
    LET shape == IF cand.kind = "package"
                 THEN /\ Len(cand.path) >= 2
                      /\ cand.path[Len(cand.path)] = "__init__.py"
                      /\ cand.package_dir = Dirname(cand.path)
                 ELSE cand.path[Len(cand.path)] # "__init__.py"
        ok == IsFile(d, cand.path) /\ shape
    IN  [ok |-> ok, fp |-> IF ok THEN Some(d[cand.path]) ELSE None]

\* spec_factory.make_spec: deterministic in (name, candidate); None when no
\* descriptor can be built
make_spec(e, fullname, cand) ==
    IF cand.path \in e.nobuild
    THEN None
    ELSE Some([name |-> fullname, origin |-> cand.path,
               is_package |-> cand.kind = "package"])

\* registry.scan: <name>.py or <name>/__init__.py under the root
Stem(seg) == CASE seg = "foo.py" -> "foo" [] seg = "bar.py" -> "bar" [] OTHER -> ""

CandidateOf(p) ==
    IF p[Len(p)] = "__init__.py"
    THEN Candidate("package", p, Dirname(p))
    ELSE Candidate("module", p, <<>>)

CandName(p) ==
    IF p[Len(p)] = "__init__.py" THEN p[Len(p) - 1] ELSE Stem(p[Len(p)])

\* fallback.python_find_spec: the host's answer, an option: a built-in name,
\* or <name>/__init__.py, else <name>.py, directly in a search-path entry
HostFinds(d, dir, fullname) ==
    LET inDir == SelectSeq(FileSeq, LAMBDA p :
                     /\ IsFile(d, p)
                     /\ CandName(p) = fullname
                     /\ \/ p[Len(p)] # "__init__.py" /\ Dirname(p) = _norm_abs(dir)
                        \/ p[Len(p)] = "__init__.py"
                           /\ Dirname(Dirname(p)) = _norm_abs(dir))
        pkgs == SelectSeq(inDir, LAMBDA p : p[Len(p)] = "__init__.py")
    IN  IF pkgs # <<>> THEN Some(dir \o SubSeq(pkgs[1], Len(_norm_abs(dir)) + 1, Len(pkgs[1])))
        ELSE IF inDir # <<>>
             THEN Some(dir \o SubSeq(inDir[1], Len(_norm_abs(dir)) + 1, Len(inDir[1])))
             ELSE None

python_find_spec(e, fullname) ==
    IF fullname \in e.hostcfg.builtins
    THEN Some(HostSpec("built-in", <<>>))
    ELSE LET hits == SelectSeq(e.hostcfg.sys_path, LAMBDA dir :
                         HostFinds(e.disk, dir, fullname) # None)
         IN  IF hits = <<>> THEN None
             ELSE Some(HostSpec("file", HostFinds(e.disk, hits[1], fullname)[1]))

Excluded(p, exclude_dirs) ==
    \E i \in 1..(Len(p) - 1) : p[i] \in exclude_dirs

\* the walk: regular files under root, in walk order, at most max_files
Walk(d, root, exclude_dirs, max_files) ==
    LET seen == SelectSeq(FileSeq, LAMBDA p :
                    /\ Len(p) > Len(root) /\ IsPrefix(root, p)
                    /\ IsFile(d, p)
                    /\ ~Excluded(p, exclude_dirs))
    IN  SubSeq(seen, 1, IF Len(seen) < max_files THEN Len(seen) ELSE max_files)

Scan(d, root, exclude_dirs, max_files) ==
    LET w == Walk(d, root, exclude_dirs, max_files)
    IN  [n \in TopNames |->
            LET mine == SelectSeq(w, LAMBDA p : CandName(p) = n)
            IN  [i \in 1..Len(mine) |-> CandidateOf(mine[i])]]

IndexKey(root, exclude_dirs, max_files) == <<root, exclude_dirs, max_files>>

IndexKeys == {IndexKey(r, ExcludeNone, MaxFilesArg) : r \in Roots}

\* registry.index.get_index: memoized per (root, exclude_dirs, max_files)
get_index(g, e, root, exclude_dirs, max_files) ==
    LET k == IndexKey(root, exclude_dirs, max_files)
    IN  IF g.memo[k] # None
        THEN [g |-> g, idx |-> g.memo[k][1], built |-> 0]
        ELSE LET idx == Scan(e.disk, root, exclude_dirs, max_files)
             IN  [g |-> [g EXCEPT !.memo[k] = Some(idx)], idx |-> idx, built |-> 1]

\* registry.index.invalidate: clears the whole memo
invalidate_index(g) == [g EXCEPT !.memo = [k \in DOMAIN g.memo |-> None]]

\* registry.cache: get / put / drop, observed_get / observed_put
cache_get(g, fullname) == g.cache[fullname]

cache_put(g, fullname, entry) == [g EXCEPT !.cache[fullname] = Some(entry)]

cache_drop(g, fullname) == [g EXCEPT !.cache[fullname] = None]

observed_get(g, fullname) == g.observed[fullname]

observed_put(g, fullname, cand) == [g EXCEPT !.observed[fullname] = Some(cand)]

----------------------------------------------------------------------------
(* resolve.py: the helpers *)

\* sorted(vanished) for a set of paths
Sorted(S) == SelectSeq(LexOrder, LAMBDA p : p \in S)

SeqToSet(q) == {q[i] : i \in 1..Len(q)}

\* the record written whether or not the path is under a managed root
_observe_candidate_NoRootTest(g, fullname, cand, roots_cmp) ==
    observed_put(g, fullname, cand)

\* lines 90-98
_observe_candidate(g, fullname, cand, roots_cmp) ==
    IF ~_is_under_any(_norm_abs(cand.path), roots_cmp)
    THEN g
    ELSE observed_put(g, fullname, cand)

_observe_python_spec(g, fullname, spec, roots_cmp) ==
    IF spec.tag # "file" \/ spec.path = <<>>
    THEN g
    ELSE LET origin_abs == _norm_abs(spec.path)
         IN  IF ~_is_under_any(origin_abs, roots_cmp)
             THEN g
             ELSE IF origin_abs[Len(origin_abs)] = "__init__.py"
                  THEN observed_put(g, fullname,
                           Candidate("package", origin_abs, Dirname(origin_abs)))
                  ELSE observed_put(g, fullname,
                           Candidate("module", origin_abs, <<>>))

\* the observed origin reported without the managed-root test
_deleted_paths_AnyRoot(g, e, fullname, roots_cmp, missing_hints) ==
    LET fromHints == {_norm_abs(missing_hints[i]) : i \in 1..Len(missing_hints)}
        hinted == {ap \in fromHints :
                      _is_under_any(ap, roots_cmp) /\ ~Exists(e.disk, ap)}
        obs == observed_get(g, fullname)
        seen == IF obs = None
                THEN {}
                ELSE LET ap == _norm_abs(obs[1].path)
                     IN  IF ~Exists(e.disk, ap) THEN {ap} ELSE {}
    IN  Sorted(hinted \cup seen)

_deleted_paths(g, e, fullname, roots_cmp, missing_hints) ==
    LET fromHints == {_norm_abs(missing_hints[i]) : i \in 1..Len(missing_hints)}
        hinted == {ap \in fromHints :
                      _is_under_any(ap, roots_cmp) /\ ~Exists(e.disk, ap)}
        obs == observed_get(g, fullname)
        seen == IF obs = None
                THEN {}
                ELSE LET ap == _norm_abs(obs[1].path)
                     IN  IF _is_under_any(ap, roots_cmp) /\ ~Exists(e.disk, ap)
                         THEN {ap}
                         ELSE {}
    IN  Sorted(hinted \cup seen)

----------------------------------------------------------------------------
(* resolve.py: resolve(), one step per store operation or collaborator call.
   g is the shared stores [cache, observed, memo]; l is the call's frame;
   e is the environment the step reads [disk, host, nobuild]. *)

NoCand == Candidate("", <<>>, <<>>)

NewFrame(fullname, root, policy, exclude_dirs, max_files) ==
    [pc |-> "gate", fullname |-> fullname, root |-> root, policy |-> policy,
     exclude_dirs |-> exclude_dirs, max_files |-> max_files,
     managed |-> FALSE, roots_cmp |-> <<>>, py_spec |-> None,
     missing_hints |-> <<>>, diag_hints |-> <<>>, cached |-> None,
     picked |-> NoCand, first |-> NoCand, fp |-> None, spec |-> None, result |-> UNHANDLED,
     via |-> "",
     n_host |-> 0, n_verify |-> 0, n_get_index |-> 0, n_scan |-> 0,
     n_invalidate |-> 0, n_cache |-> 0, n_build |-> 0]

Return(g, l, outcome) ==
    [g |-> g, l |-> [l EXCEPT !.pc = "done", !.result = outcome]]

Goto(g, l, pc) == [g |-> g, l |-> [l EXCEPT !.pc = pc]]

\* the gate with the fail-open step skipped
S_gate_SkipHost(g, l, e) ==
    IF ~is_supported_fullname(l.fullname)
    THEN Return(g, l, UNHANDLED)
    ELSE LET d == decide(l.fullname, l.policy)
         IN  IF ~d.handle
             THEN Return(g, l, UNHANDLED)
             ELSE [g |-> g,
                   l |-> [l EXCEPT !.managed = d.managed,
                                   !.roots_cmp = _roots(l.policy, l.root),
                                   !.pc = "cache_get"]]

\* the gate with the policy's answer ignored
S_gate_IgnoreDecision(g, l, e) ==
    IF ~is_supported_fullname(l.fullname)
    THEN Return(g, l, UNHANDLED)
    ELSE [g |-> g,
          l |-> [l EXCEPT !.managed = decide(l.fullname, l.policy).managed,
                          !.roots_cmp = _roots(l.policy, l.root),
                          !.pc = "find_spec"]]

\* lines 159-167
S_gate(g, l, e) ==
    IF ~is_supported_fullname(l.fullname)
    THEN Return(g, l, UNHANDLED)
    ELSE LET d == decide(l.fullname, l.policy)
         IN  IF ~d.handle
             THEN Return(g, l, UNHANDLED)
             ELSE [g |-> g,
                   l |-> [l EXCEPT !.managed = d.managed,
                                   !.roots_cmp = _roots(l.policy, l.root),
                                   !.pc = "find_spec"]]

\* lines 170-171
S_find_spec(g, l, e) ==
    LET py_spec == python_find_spec(e, l.fullname)
    IN  [g |-> g,
         l |-> [l EXCEPT !.py_spec = py_spec, !.n_host = @ + 1,
                         !.pc = IF py_spec # None THEN "observe_py"
                                ELSE "cache_get"]]

\* lines 172-173
S_observe_py(g, l, e) ==
    LET g2 == _observe_python_spec(g, l.fullname, l.py_spec[1], l.roots_cmp)
    IN  Return(g2, l, UNHANDLED)

\* lines 179-184
S_cache_get(g, l, e) ==
    IF l.policy.cache_enabled
    THEN LET cached == cache_get(g, l.fullname)
         IN  [g |-> g,
              l |-> [l EXCEPT !.cached = cached, !.n_cache = @ + 1,
                              !.pc = IF cached # None THEN "verify_cached"
                                     ELSE "get_index"]]
    ELSE Goto(g, l, "get_index")

\* the cached candidate verified without comparing fingerprints
S_verify_cached_NoFp(g, l, e) ==
    LET c == l.cached[1]
        v == verify_candidate(e.disk, c.candidate)
        hit == v.ok /\ v.fp # None
        spec == IF hit THEN make_spec(e, l.fullname, c.candidate) ELSE None
    IN  [g |-> g,
         l |-> [l EXCEPT !.n_verify = @ + 1, !.fp = v.fp,
                         !.n_build = IF hit THEN @ + 1 ELSE @,
                         !.spec = spec,
                         !.pc = IF hit /\ spec # None THEN "observe_cached"
                                ELSE "stale_hint"]]

\* lines 185-188: verify the cached candidate and build its descriptor
S_verify_cached(g, l, e) ==
    LET c == l.cached[1]
        v == verify_candidate(e.disk, c.candidate)
        hit == v.ok /\ v.fp # None /\ c.fp = v.fp
        spec == IF hit THEN make_spec(e, l.fullname, c.candidate) ELSE None
    IN  [g |-> g,
         l |-> [l EXCEPT !.n_verify = @ + 1, !.fp = v.fp,
                         !.n_build = IF hit THEN @ + 1 ELSE @,
                         !.spec = spec,
                         !.pc = IF hit /\ spec # None THEN "observe_cached"
                                ELSE "stale_hint"]]

\* the cache path returning the outcome without the managed flag
S_observe_cached_Unmanaged(g, l, e) ==
    LET c == l.cached[1]
        g2 == _observe_candidate(g, l.fullname, c.candidate, l.roots_cmp)
    IN  Return(g2, [l EXCEPT !.via = "cache"],
               Resolved(l.fullname, c.candidate, l.spec[1], FALSE))

\* lines 189-190
S_observe_cached(g, l, e) ==
    LET c == l.cached[1]
        g2 == _observe_candidate(g, l.fullname, c.candidate, l.roots_cmp)
    IN  Return(g2, [l EXCEPT !.via = "cache"],
               Resolved(l.fullname, c.candidate, l.spec[1], l.managed))

\* lines 193-197
S_stale_hint(g, l, e) ==
    LET c == l.cached[1]
    IN  [g |-> g,
         l |-> [l EXCEPT !.missing_hints =
                             IF ~Exists(e.disk, c.candidate.path)
                             THEN Append(@, c.candidate.path) ELSE @,
                         !.pc = "cache_drop"]]

\* line 198
S_cache_drop(g, l, e) ==
    [g |-> cache_drop(g, l.fullname),
     l |-> [l EXCEPT !.n_cache = @ + 1, !.pc = "get_index"]]

\* the index scan falling back on the observed record when it lists nothing
S_get_index_UseObserved(g, l, e) ==
    LET r == get_index(g, e, l.root, l.exclude_dirs, l.max_files)
        o == observed_get(g, l.fullname)
        cands == IF r.idx[l.fullname] = <<>> /\ o # None
                 THEN <<o[1]>> ELSE r.idx[l.fullname]
        l2 == [l EXCEPT !.n_get_index = @ + 1, !.n_scan = @ + r.built]
    IN  IF cands = <<>>
        THEN IF l.policy.raise_on_deleted
             THEN [g |-> r.g,
                   l |-> [l2 EXCEPT !.diag_hints = l.missing_hints,
                                    !.pc = "deleted_paths"]]
             ELSE Return(r.g, l2, UNHANDLED)
        ELSE IF Len(cands) # 1
             THEN Return(r.g, l2, UNHANDLED)
             ELSE [g |-> r.g,
                   l |-> [l2 EXCEPT !.picked = cands[1], !.first = cands[1],
                                    !.pc = "verify"]]

\* the index scan preceded by an invalidation, so that it always rebuilds
S_get_index_Rescan(g, l, e) ==
    LET r == get_index(invalidate_index(g), e, l.root, l.exclude_dirs, l.max_files)
        cands == r.idx[l.fullname]
        l2 == [l EXCEPT !.n_get_index = @ + 1, !.n_scan = @ + r.built]
    IN  IF cands = <<>>
        THEN IF l.policy.raise_on_deleted
             THEN [g |-> r.g,
                   l |-> [l2 EXCEPT !.diag_hints = l.missing_hints,
                                    !.pc = "deleted_paths"]]
             ELSE Return(r.g, l2, UNHANDLED)
        ELSE IF Len(cands) # 1
             THEN Return(r.g, l2, UNHANDLED)
             ELSE [g |-> r.g,
                   l |-> [l2 EXCEPT !.picked = cands[1], !.first = cands[1],
                                    !.pc = "verify"]]

\* lines 201-216
S_get_index(g, l, e) ==
    LET r == get_index(g, e, l.root, l.exclude_dirs, l.max_files)
        cands == r.idx[l.fullname]
        l2 == [l EXCEPT !.n_get_index = @ + 1, !.n_scan = @ + r.built]
    IN  IF cands = <<>>
        THEN IF l.policy.raise_on_deleted
             THEN [g |-> r.g,
                   l |-> [l2 EXCEPT !.diag_hints = l.missing_hints,
                                    !.pc = "deleted_paths"]]
             ELSE Return(r.g, l2, UNHANDLED)
        ELSE IF Len(cands) # 1
             THEN Return(r.g, l2, UNHANDLED)
             ELSE [g |-> r.g,
                   l |-> [l2 EXCEPT !.picked = cands[1], !.first = cands[1],
                                    !.pc = "verify"]]

\* lines 207-210, 226-229, 234-237
S_deleted_paths(g, l, e) ==
    LET vanished == _deleted_paths(g, e, l.fullname, l.roots_cmp, l.diag_hints)
    IN  IF vanished # <<>>
        THEN Return(g, l, Deleted(l.fullname, vanished, l.managed))
        ELSE Return(g, l, UNHANDLED)

\* lines 217-220
S_verify(g, l, e) ==
    LET v == verify_candidate(e.disk, l.picked)
    IN  [g |-> g,
         l |-> [l EXCEPT !.n_verify = @ + 1, !.fp = v.fp,
                         !.pc = IF v.ok THEN "make_spec" ELSE "invalidate"]]

\* line 221
S_invalidate(g, l, e) ==
    [g |-> invalidate_index(g),
     l |-> [l EXCEPT !.n_invalidate = @ + 1, !.pc = "get_index2"]]

\* the rescan with the first candidate kept as the one to verify again
S_get_index2_KeepFirst(g, l, e) ==
    LET r == get_index(g, e, l.root, l.exclude_dirs, l.max_files)
        cands2 == r.idx[l.fullname]
        l2 == [l EXCEPT !.n_get_index = @ + 1, !.n_scan = @ + r.built]
    IN  IF Len(cands2) # 1
        THEN IF cands2 = <<>> /\ l.policy.raise_on_deleted
             THEN [g |-> r.g,
                   l |-> [l2 EXCEPT !.diag_hints = l.missing_hints,
                                    !.pc = "deleted_paths"]]
             ELSE Return(r.g, l2, UNHANDLED)
        ELSE [g |-> r.g, l |-> [l2 EXCEPT !.pc = "verify2"]]

\* lines 222-230
S_get_index2(g, l, e) ==
    LET r == get_index(g, e, l.root, l.exclude_dirs, l.max_files)
        cands2 == r.idx[l.fullname]
        l2 == [l EXCEPT !.n_get_index = @ + 1, !.n_scan = @ + r.built]
    IN  IF Len(cands2) # 1
        THEN IF cands2 = <<>> /\ l.policy.raise_on_deleted
             THEN [g |-> r.g,
                   l |-> [l2 EXCEPT !.diag_hints = l.missing_hints,
                                    !.pc = "deleted_paths"]]
             ELSE Return(r.g, l2, UNHANDLED)
        ELSE [g |-> r.g,
              l |-> [l2 EXCEPT !.picked = cands2[1], !.pc = "verify2"]]

\* the second verification starting another retry when it fails
S_verify2_RetryAgain(g, l, e) ==
    LET v == verify_candidate(e.disk, l.picked)
        l2 == [l EXCEPT !.n_verify = @ + 1, !.fp = v.fp]
    IN  IF ~v.ok
        THEN Goto(g, l2, "invalidate")
        ELSE Goto(g, l2, "make_spec")

\* lines 231-237
S_verify2(g, l, e) ==
    LET v == verify_candidate(e.disk, l.picked)
        l2 == [l EXCEPT !.n_verify = @ + 1, !.fp = v.fp]
    IN  IF ~v.ok
        THEN IF l.policy.raise_on_deleted
             THEN [g |-> g,
                   l |-> [l2 EXCEPT !.diag_hints =
                                        Append(l.missing_hints, l.picked.path),
                                    !.pc = "deleted_paths"]]
             ELSE Return(g, l2, UNHANDLED)
        ELSE Goto(g, l2, "make_spec")

\* a failed build that still leaves a cache entry behind
S_make_spec_CacheOnFailure(g, l, e) ==
    LET spec == make_spec(e, l.fullname, l.picked)
        l2 == [l EXCEPT !.n_build = @ + 1, !.spec = spec]
    IN  IF spec = None
        THEN Return(cache_put(g, l.fullname, CacheEntry(l.picked, l.fp)),
                    l2, UNHANDLED)
        ELSE Goto(g, l2, IF l.policy.cache_enabled THEN "cache_put"
                         ELSE "observe")

\* the build followed by a cache write whatever the policy says
S_make_spec_AlwaysCache(g, l, e) ==
    LET spec == make_spec(e, l.fullname, l.picked)
        l2 == [l EXCEPT !.n_build = @ + 1, !.spec = spec]
    IN  IF spec = None
        THEN Return(g, l2, UNHANDLED)
        ELSE Goto(g, l2, "cache_put")

\* lines 239-243
S_make_spec(g, l, e) ==
    LET spec == make_spec(e, l.fullname, l.picked)
        l2 == [l EXCEPT !.n_build = @ + 1, !.spec = spec]
    IN  IF spec = None
        THEN Return(g, l2, UNHANDLED)
        ELSE Goto(g, l2, IF l.policy.cache_enabled THEN "cache_put"
                         ELSE "observe")

\* line 244
S_cache_put(g, l, e) ==
    [g |-> cache_put(g, l.fullname, CacheEntry(l.picked, l.fp)),
     l |-> [l EXCEPT !.n_cache = @ + 1, !.pc = "observe"]]

\* lines 246-247
S_observe(g, l, e) ==
    LET g2 == _observe_candidate(g, l.fullname, l.picked, l.roots_cmp)
    IN  Return(g2, [l EXCEPT !.via = "scan"],
               Resolved(l.fullname, l.picked, l.spec[1], l.managed))

\* one step of resolve() from wherever the frame is
Step(g, l, e) ==
    CASE l.pc = "gate" -> S_gate(g, l, e)
      [] l.pc = "find_spec" -> S_find_spec(g, l, e)
      [] l.pc = "observe_py" -> S_observe_py(g, l, e)
      [] l.pc = "cache_get" -> S_cache_get(g, l, e)
      [] l.pc = "verify_cached" -> S_verify_cached(g, l, e)
      [] l.pc = "observe_cached" -> S_observe_cached(g, l, e)
      [] l.pc = "stale_hint" -> S_stale_hint(g, l, e)
      [] l.pc = "cache_drop" -> S_cache_drop(g, l, e)
      [] l.pc = "get_index" -> S_get_index(g, l, e)
      [] l.pc = "deleted_paths" -> S_deleted_paths(g, l, e)
      [] l.pc = "verify" -> S_verify(g, l, e)
      [] l.pc = "invalidate" -> S_invalidate(g, l, e)
      [] l.pc = "get_index2" -> S_get_index2(g, l, e)
      [] l.pc = "verify2" -> S_verify2(g, l, e)
      [] l.pc = "make_spec" -> S_make_spec(g, l, e)
      [] l.pc = "cache_put" -> S_cache_put(g, l, e)
      [] l.pc = "observe" -> S_observe(g, l, e)

\* resolve() run to its return with nothing interleaved
RECURSIVE Run(_, _, _)
Run(g, l, e) ==
    IF l.pc = "done"
    THEN [g |-> g, l |-> l]
    ELSE LET s == Step(g, l, e) IN Run(s.g, s.l, e)

resolve(g, e, fullname, root, policy, exclude_dirs, max_files) ==
    Run(g, NewFrame(fullname, root, policy, exclude_dirs, max_files), e)

----------------------------------------------------------------------------
(* origins_cache.py: the origin ledger *)

\* pathlib.Path(s) and str(p): "." segments are dropped
PathOf(s) == SelectSeq(s, LAMBDA x : x # ".")

\* Path.resolve() where nothing is a symbolic link: the absolute normal form
ResolvePath(p) == PathOf(p)

\* p.relative_to(r): a ValueError unless r is p or an ancestor of p
RelativeTo(p, r) == [raised |-> ~IsPrefix(r, p)]

\* lines 14-17
record(L, fullname, path) ==
    IF fullname = "" \/ path = <<>>
    THEN L
    ELSE [L EXCEPT ![fullname] = Some(path)]

\* lines 19-20
get(L, fullname) == IF fullname \in DOMAIN L THEN L[fullname] ELSE None

\* lines 28-36, with a root that is not an ancestor ending the search
RECURSIVE VanishedFrom_FirstRootOnly(_, _, _, _)
VanishedFrom_FirstRootOnly(p, d, roots, i) ==
    IF i > Len(roots)
    THEN [raised |-> FALSE, value |-> None]
    ELSE LET rp == PathOf(roots[i])
         IN  IF RelativeTo(ResolvePath(p), ResolvePath(rp)).raised
             THEN [raised |-> FALSE, value |-> None]
             ELSE IF ~Exists(d, p)
                  THEN [raised |-> FALSE, value |-> Some(p)]
                  ELSE VanishedFrom_FirstRootOnly(p, d, roots, i + 1)

\* lines 28-36: the loop over the roots from the i-th on; an exception in
\* the try block moves on to the next root
RECURSIVE VanishedFrom(_, _, _, _)
VanishedFrom(p, d, roots, i) ==
    IF i > Len(roots)
    THEN [raised |-> FALSE, value |-> None]
    ELSE LET rp == PathOf(roots[i])
         IN  IF RelativeTo(ResolvePath(p), ResolvePath(rp)).raised
             THEN VanishedFrom(p, d, roots, i + 1)
             ELSE IF ~Exists(d, p)
                  THEN [raised |-> FALSE, value |-> Some(p)]
                  ELSE VanishedFrom(p, d, roots, i + 1)

\* lines 22-37
vanished_under_roots(L, d, fullname, roots) ==
    LET o == get(L, fullname)
    IN  IF o = None
        THEN [LAST |-> L, raised |-> FALSE, value |-> None]
        ELSE LET r == VanishedFrom(PathOf(o[1]), d, roots, 1)
             IN  [LAST |-> L, raised |-> r.raised, value |-> r.value]

----------------------------------------------------------------------------
(* The state machine *)

\* policies: foo handled and managed, bar handled and unmanaged, with the
\* invocation root managed and every cache_enabled / raise_on_deleted, or
\* with r2 managed and deletions raised; and one that declines foo
Policies ==
    [roots : {<<>>}, cache_enabled : BOOLEAN, raise_on_deleted : BOOLEAN,
     deny : {{}}, managed : {{"foo"}}]
    \cup [roots : {<<R2>>}, cache_enabled : BOOLEAN, raise_on_deleted : {TRUE},
          deny : {{}}, managed : {{"foo"}}]
    \cup {[roots |-> <<>>, cache_enabled |-> TRUE, raise_on_deleted |-> TRUE,
           deny |-> {"foo"}, managed |-> {"foo"}]}

\* the host configurations: nothing visible; r1 on the search path (written
\* with a "." segment); foo a built-in name
HostCfgs ==
    {[sys_path |-> <<>>, builtins |-> {}],
     [sys_path |-> << <<"r1", ".">> >>, builtins |-> {}],
     [sys_path |-> <<>>, builtins |-> {"foo"}]}

\* the calls made: foo under r1 with every policy, and under r2, bar (the
\* other name) and the unsupported name with the default policy
DefaultPolicy ==
    [roots |-> <<>>, cache_enabled |-> TRUE, raise_on_deleted |-> TRUE,
     deny |-> {}, managed |-> {"foo"}]

Calls ==
    {<<"foo", R1, pol>> : pol \in Policies}
    \cup {<<"foo", R2, DefaultPolicy>>,
          <<"bar", R1, DefaultPolicy>>, <<"foo.sub", R1, DefaultPolicy>>}

\* the file whose content is edited; the others only appear and disappear
Edited == {FooPy}

Stores == [cache |-> cache, observed |-> observed, memo |-> memo]

Env == [disk |-> disk, hostcfg |-> hostcfg, nobuild |-> nobuild]

\* the candidates whose descriptor build can fail
Fragile == {FooPy}

NoChange == [kind |-> "none", path |-> <<>>]

Idle == NewFrame("", <<>>, [roots |-> <<>>, cache_enabled |-> FALSE,
                            raise_on_deleted |-> FALSE, deny |-> {},
                            managed |-> {}], ExcludeNone, 0)

SameArgs(f1, f2) ==
    /\ f1.fullname = f2.fullname
    /\ f1.root = f2.root
    /\ f1.policy = f2.policy
    /\ f1.exclude_dirs = f2.exclude_dirs
    /\ f1.max_files = f2.max_files

Procs == {1, 2}

IdleFrame == [Idle EXCEPT !.pc = "idle"]

LedgerNames == {"foo", "bar"}

NoQuery ==
    [fresh |-> FALSE, fullname |-> "", roots |-> <<>>, before |-> <<>>, raised |-> FALSE, value |-> None,
     said |-> [n \in LedgerNames |-> None]]

\* no call is remembered
NoCall ==
    [f |-> Idle, fresh |-> FALSE, gap |-> NoChange, same |-> FALSE,
     prev |-> UNHANDLED, prev_fp |-> None]

\* what stays remembered of a call for the call that follows it
Forget(l) ==
    IF l.f.result.type = "Resolved"
    THEN [NoCall EXCEPT !.f = [Idle EXCEPT !.fullname = l.f.fullname,
                                          !.root = l.f.root,
                                          !.policy = l.f.policy,
                                          !.max_files = l.f.max_files,
                                          !.fp = l.f.fp,
                                          !.result = l.f.result]]
    ELSE NoCall

Init ==
    /\ disk \in {d \in [AllPaths -> {-1, 0, 1}] :
                    /\ \A r \in Roots : d[r] = -1
                    /\ \A p \in Files : d[p] >= 0}
    /\ hostcfg \in HostCfgs
    /\ nobuild = {}
    /\ cache = [n \in Names |-> None]
    /\ observed = [n \in Names |-> None]
    /\ memo = [k \in IndexKeys |-> None]
    /\ last = NoCall
    /\ since = NoChange
    /\ nenv = 0
    /\ frames = [p \in Procs |-> IdleFrame]
    /\ held = [p \in Procs |-> {}]
    /\ nested = {}
    /\ nbegin = 0
    /\ LAST = [n \in LedgerNames |-> None]
    /\ lastq = NoQuery

ConcUnchanged == UNCHANGED <<frames, held, nested, nbegin>>

LedgerUnchanged == UNCHANGED <<LAST, lastq>>

EnvStep(changed) ==
    /\ ~last.fresh
    /\ ~lastq.fresh
    /\ nenv < MaxEnv
    /\ nenv' = nenv + 1
    /\ UNCHANGED last
    /\ since' = IF last.f.result.type # "Resolved"
                THEN NoChange
                ELSE IF since.kind = "none" /\ changed.kind = "deleted"
                     THEN changed
                     ELSE [kind |-> "other", path |-> <<>>]
    /\ UNCHANGED <<cache, observed, memo>>
    /\ ConcUnchanged /\ LedgerUnchanged

\* a file is created, or its content changes
WriteFile(p, v) ==
    /\ disk[p] # v
    /\ p \in Edited \/ v = 1
    /\ disk' = [disk EXCEPT ![p] = v, ![RootOf(p)] = -1]
    /\ EnvStep([kind |-> "written", path |-> p])
    /\ UNCHANGED <<hostcfg, nobuild>>

DeleteFile(p) ==
    /\ disk[p] # 0
    /\ disk' = [disk EXCEPT ![p] = 0]
    /\ EnvStep([kind |-> IF disk[p] > 0 THEN "deleted" ELSE "other", path |-> p])
    /\ UNCHANGED <<hostcfg, nobuild>>

\* a root directory is deleted or moved away with everything under it
DeleteTree(r) ==
    /\ disk[r] # 0
    /\ disk' = [p \in AllPaths |-> IF IsPrefix(r, p) THEN 0 ELSE disk[p]]
    /\ EnvStep([kind |-> "other", path |-> r])
    /\ UNCHANGED <<hostcfg, nobuild>>

\* a directory takes the place of the file
ReplaceWithDir(p) ==
    /\ p \in Edited
    /\ disk[p] # -1
    /\ disk' = [disk EXCEPT ![p] = -1, ![RootOf(p)] = -1]
    /\ EnvStep([kind |-> "other", path |-> p])
    /\ UNCHANGED <<hostcfg, nobuild>>

\* the descriptor builder starts or stops failing for a path
SetBuild(p) ==
    /\ nobuild' = IF p \in nobuild THEN nobuild \ {p} ELSE nobuild \cup {p}
    /\ EnvStep([kind |-> "other", path |-> <<>>])
    /\ UNCHANGED <<disk, hostcfg>>

\* a whole resolve() call
Resolve(fullname, root, policy) ==
    /\ ~last.fresh
    /\ LET r == resolve(Stores, Env, fullname, root, policy,
                        ExcludeNone, MaxFilesArg)
       IN  /\ cache' = r.g.cache
           /\ observed' = r.g.observed
           /\ memo' = r.g.memo
           /\ last' = [f |-> r.l, fresh |-> TRUE, gap |-> since,
                       same |-> SameArgs(r.l, last.f),
                       prev |-> IF SameArgs(r.l, last.f) THEN last.f.result
                                ELSE UNHANDLED,
                       prev_fp |-> IF SameArgs(r.l, last.f) THEN last.f.fp
                                   ELSE None]
    /\ since' = NoChange
    /\ UNCHANGED <<disk, hostcfg, nobuild, nenv>>
    /\ ConcUnchanged /\ LedgerUnchanged

\* the caller takes the outcome; of the call only a Resolved outcome and its
\* arguments stay remembered
Consume ==
    /\ last.fresh
    /\ last' = Forget(last)
    /\ UNCHANGED <<disk, hostcfg, nobuild, cache, observed, memo, since, nenv>>
    /\ ConcUnchanged /\ LedgerUnchanged

Next ==
    \/ Consume
    \/ \E c \in Calls : Resolve(c[1], c[2], c[3])
    \/ \E p \in Files, v \in 1..MaxVer : WriteFile(p, v)
    \/ \E p \in Files : DeleteFile(p)
    \/ \E p \in Files : ReplaceWithDir(p)
    \/ \E r \in Roots : DeleteTree(r)
    \/ \E p \in Fragile : SetBuild(p)

Spec == Init /\ [][Next]_vars

----------------------------------------------------------------------------
(* Reading the last call *)

F == last.f

Out == last.f.result

\* the managed roots of the last call: policy.roots, or the invocation root
ManagedRoots ==
    IF F.policy.roots # <<>> THEN F.policy.roots ELSE <<F.root>>

UnderManaged(p) ==
    \E i \in 1..Len(ManagedRoots) : IsPrefix(ManagedRoots[i], p)

\* the candidates for a name that are on disk under a root
OnDisk(fullname, root) ==
    {p \in Files : IsFile(disk, p) /\ CandName(p) = fullname /\ IsPrefix(root, p)}

HostResolves(fullname) == python_find_spec(Env, fullname) # None

----------------------------------------------------------------------------
(* C1 *)

\* C1: fail-open. Whenever the host mechanism returns a descriptor for the
\* name of a call, the call returns Unhandled, whatever the disk, the cache,
\* the index memo and the observed records hold.
C1_FailOpen ==
    (last.fresh /\ HostResolves(F.fullname)) => Out = UNHANDLED

\* a call deferred to the host although a valid cache entry and a single
\* on-disk candidate for the name were there
C1_Witness ==
    /\ last.fresh
    /\ HostResolves(F.fullname)
    /\ Out = UNHANDLED
    /\ F.policy.cache_enabled
    /\ cache[F.fullname] # None
    /\ verify_candidate(disk, cache[F.fullname][1].candidate).ok
    /\ Cardinality(OnDisk(F.fullname, F.root)) = 1

----------------------------------------------------------------------------
(* C2 *)

\* C2: ambiguity safety. A call made while two or more candidates for its
\* name are on disk under its root never returns Resolved.
C2_AmbiguitySafety ==
    (last.fresh /\ Cardinality(OnDisk(F.fullname, F.root)) >= 2)
        => Out.type # "Resolved"

----------------------------------------------------------------------------
(* C3 *)

\* the cache entry the last call read fails verification or its fingerprint
\* is no longer the current one
StaleRead ==
    /\ F.cached # None
    /\ LET v == verify_candidate(disk, F.cached[1].candidate)
       IN  ~v.ok \/ v.fp # F.cached[1].fp

\* C3: cache invalidation. A call that reads a stale cache entry never
\* returns Resolved from it: the entry is dropped, and the outcome is
\* Unhandled, Deleted, or a Resolved whose candidate came from the index,
\* verifies now, and (the call having cache_enabled) is cached with its
\* current fingerprint.
C3_CacheInvalidation ==
    (last.fresh /\ StaleRead) =>
        /\ F.via # "cache"
        /\ cache[F.fullname] # F.cached
        /\ Out.type \in {"Unhandled", "Deleted", "Resolved"}
        /\ Out.type = "Resolved" =>
              LET v == verify_candidate(disk, Out.candidate[1])
              IN  /\ F.via = "scan"
                  /\ v.ok
                  /\ cache[F.fullname] = Some(CacheEntry(Out.candidate[1], v.fp))
        /\ Out.type # "Resolved" => cache[F.fullname] = None

\* a stale entry (content changed) was read and the call resolved afresh
C3_Witness ==
    /\ last.fresh
    /\ StaleRead
    /\ IsFile(disk, F.cached[1].candidate.path)
    /\ Out.type = "Resolved"

\* a stale entry (file gone) was read and the call did not resolve
C3_WitnessGone ==
    /\ last.fresh
    /\ StaleRead
    /\ ~Exists(disk, F.cached[1].candidate.path)
    /\ Out.type = "Deleted"

----------------------------------------------------------------------------
(* C4 *)

\* the last call repeats, with the same arguments, the call before it, which
\* returned Resolved
Repeat == last.fresh /\ last.same /\ last.prev.type = "Resolved"

PrevCand == last.prev.candidate[1]

NoCandidates(fullname) ==
    \A p \in Files : CandName(p) = fullname => ~IsFile(disk, p)

\* the file resolved by the call before was under a managed root, it is the
\* one thing deleted since, and nothing for the name is left
SoleFileDeleted ==
    /\ Repeat
    /\ UnderManaged(PrevCand.path)
    /\ last.gap = [kind |-> "deleted", path |-> PrevCand.path]
    /\ NoCandidates(F.fullname)
    /\ ~HostResolves(F.fullname)

\* C4: deletion diagnosis. After a Resolved under a managed root and the
\* deletion of that sole backing file, the next call returns Deleted with
\* exactly that path when raise_on_deleted, Unhandled otherwise.
C4_DeletionDiagnosis ==
    SoleFileDeleted =>
        Out = IF F.policy.raise_on_deleted
              THEN Deleted(F.fullname, <<PrevCand.path>>, F.managed)
              ELSE UNHANDLED

----------------------------------------------------------------------------
(* C5 *)

\* the candidate of the call before still verifies with the fingerprint that
\* call saw
PrevUnchanged ==
    /\ Repeat
    /\ LET v == verify_candidate(disk, PrevCand)
       IN  v.ok /\ v.fp = last.prev_fp

ServedWithoutScan ==
    /\ Out.type = "Resolved"
    /\ Out.candidate = Some(PrevCand)
    /\ F.n_scan = 0
    /\ F.n_invalidate = 0

\* C5 as stated: cache correctness. A repeat of a Resolved call whose
\* candidate is unchanged returns Resolved with that candidate, without an
\* index build and without invalidate_index.
C5_CacheCorrectness == PrevUnchanged => ServedWithoutScan

\* C5, amended: the same, provided the host mechanism still returns none for
\* the name and the descriptor builder still builds the candidate.
C5_CacheCorrectnessAmended ==
    (/\ PrevUnchanged
     /\ ~HostResolves(F.fullname)
     /\ make_spec(Env, F.fullname, PrevCand) # None) => ServedWithoutScan

\* a repeat served from the cache after other files changed
C5_Witness ==
    /\ PrevUnchanged
    /\ last.gap.kind # "none"
    /\ F.policy.cache_enabled
    /\ ServedWithoutScan
    /\ F.n_get_index = 0

\* a repeat with the cache off, served from the memoized snapshot
C5_WitnessNoCache ==
    /\ PrevUnchanged
    /\ ~F.policy.cache_enabled
    /\ ServedWithoutScan
    /\ F.n_get_index = 1

----------------------------------------------------------------------------
(* C6 *)

StrictlySorted(q) ==
    \A i, j \in 1..Len(q) : i < j => Rank(q[i]) < Rank(q[j])

\* C6: Deleted is returned only with raise_on_deleted, and then its paths are
\* a non-empty, sorted, duplicate-free list of paths under a managed root
\* that do not exist on disk.
C6_DeletedOnlyAsStated ==
    (last.fresh /\ Out.type = "Deleted") =>
        /\ F.policy.raise_on_deleted
        /\ Out.last_known_paths # <<>>
        /\ StrictlySorted(Out.last_known_paths)
        /\ \A i \in 1..Len(Out.last_known_paths) :
              /\ UnderManaged(Out.last_known_paths[i])
              /\ ~Exists(disk, Out.last_known_paths[i])

\* Deleted was returned for a path that both the stale cache entry (as a
\* missing hint) and the observed record named: it is listed once
C6_Witness ==
    /\ last.fresh
    /\ Out.type = "Deleted"
    /\ F.diag_hints # <<>>
    /\ observed[F.fullname] # None
    /\ observed[F.fullname][1].path = F.diag_hints[1]
    /\ Out.last_known_paths = <<F.diag_hints[1]>>

\* Deleted was returned from the observed record alone (caching off)
C6_WitnessObserved ==
    /\ last.fresh
    /\ Out.type = "Deleted"
    /\ ~F.policy.cache_enabled
    /\ Len(Out.last_known_paths) = 1

\* a diagnosis that found a vanished path, with raise_on_deleted off
C6_WitnessOff ==
    /\ last.fresh
    /\ ~F.policy.raise_on_deleted
    /\ Out = UNHANDLED
    /\ F.n_get_index > 0
    /\ _deleted_paths(Stores, Env, F.fullname, F.roots_cmp, F.missing_hints) # <<>>

----------------------------------------------------------------------------
(* C7 *)

\* C7: idempotence. With cache_enabled and nothing changed since, a repeat
\* of a Resolved call returns the identical Resolved outcome.
C7_Idempotence ==
    (Repeat /\ last.gap.kind = "none" /\ F.policy.cache_enabled)
        => Out = last.prev

\* a repeat served from the cache, equal to the scan-built outcome before it
C7_Witness ==
    /\ Repeat
    /\ last.gap.kind = "none"
    /\ F.policy.cache_enabled
    /\ F.via = "cache"
    /\ Out = last.prev
    /\ Out.managed

----------------------------------------------------------------------------
(* C8 *)

GateCall(f) ==
    \/ ~is_supported_fullname(f.fullname)
    \/ ~decide(f.fullname, f.policy).handle

\* C8: gates have no side effects. A call for an unsupported name, or one
\* the policy declines, returns Unhandled, leaves the cache, the observed
\* records and the index memo as they were, and calls neither the host nor
\* the verifier nor the index.
C8_GatesNoEffect ==
    [][(last'.fresh /\ ~last.fresh /\ GateCall(last'.f)) =>
          /\ last'.f.result = UNHANDLED
          /\ cache' = cache /\ observed' = observed /\ memo' = memo
          /\ last'.f.n_host = 0 /\ last'.f.n_verify = 0
          /\ last'.f.n_get_index = 0 /\ last'.f.n_invalidate = 0
          /\ last'.f.n_cache = 0 /\ last'.f.n_build = 0]_vars

\* the policy declined a name that has a cache entry and a memoized index
C8_Witness ==
    /\ last.fresh
    /\ is_supported_fullname(F.fullname)
    /\ ~decide(F.fullname, F.policy).handle
    /\ Out = UNHANDLED
    /\ cache[F.fullname] # None
    /\ observed[F.fullname] # None
    /\ memo[IndexKey(F.root, F.exclude_dirs, F.max_files)] # None

\* an unsupported name was turned away
C8_WitnessUnsupported ==
    /\ last.fresh
    /\ ~is_supported_fullname(F.fullname)
    /\ Out = UNHANDLED
    /\ cache["foo"] # None

----------------------------------------------------------------------------
(* The origin ledger as a state machine *)

\* what record() is called with: names and paths, the empty ones included
RecordNames == LedgerNames \cup {""}

RecordPaths == {FooPy, FooPy2, BarPy, <<>>}

\* the root lists a query is made with
RootLists ==
    {<<>>, <<R1>>, <<R2>>, <<R2, R1>>, << <<"r1", ".">> >>, << <<"r1", "foo">> >>}

Record(fullname, path) ==
    /\ ~lastq.fresh
    /\ LAST' = record(LAST, fullname, path)
    /\ lastq' = [lastq EXCEPT !.said = IF fullname \in LedgerNames /\ path # <<>>
                                       THEN [@ EXCEPT ![fullname] = Some(path)]
                                       ELSE @]
    /\ UNCHANGED <<disk, hostcfg, nobuild, cache, observed, memo, last, since, nenv>>
    /\ ConcUnchanged

Query(fullname, roots) ==
    /\ ~lastq.fresh
    /\ LET r == vanished_under_roots(LAST, disk, fullname, roots)
       IN  /\ LAST' = r.LAST
           /\ lastq' = [fresh |-> TRUE, fullname |-> fullname, roots |-> roots,
                        before |-> LAST, raised |-> r.raised,
                        value |-> r.value, said |-> lastq.said]
    /\ UNCHANGED <<disk, hostcfg, nobuild, cache, observed, memo, last, since, nenv>>
    /\ ConcUnchanged

\* the result of the last query has been looked at
ConsumeQuery ==
    /\ lastq.fresh
    /\ lastq' = [NoQuery EXCEPT !.said = lastq.said]
    /\ UNCHANGED <<disk, hostcfg, nobuild, cache, observed, memo, last, since, nenv, LAST>>
    /\ ConcUnchanged

NextLedger ==
    \/ \E n \in RecordNames, p \in RecordPaths : Record(n, p)
    \/ \E n \in RecordNames, rs \in RootLists : Query(n, rs)
    \/ \E p \in Files : WriteFile(p, 1)
    \/ \E p \in Files : DeleteFile(p)
    \/ \E r \in Roots : DeleteTree(r)
    \/ ConsumeQuery

SpecLedger == Init /\ [][NextLedger]_vars

----------------------------------------------------------------------------
(* C9 *)

\* the path the last query is about: the last non-empty path record() was
\* given for the name, if any
Said == IF lastq.fullname \in LedgerNames THEN lastq.said[lastq.fullname] ELSE None

SaidUnderSomeRoot ==
    \E i \in 1..Len(lastq.roots) : IsPrefix(PathOf(lastq.roots[i]), Said[1])

\* C9: vanished_under_roots(name, roots) returns the recorded path exactly
\* when a record exists for name, the path lies under one of the roots and
\* it no longer exists on disk; otherwise it returns None; it never raises
\* and it leaves the ledger unchanged.
C9_LedgerQuery ==
    lastq.fresh =>
        /\ ~lastq.raised
        /\ LAST = lastq.before
        /\ lastq.value =
              IF Said # None /\ SaidUnderSomeRoot /\ ~Exists(disk, Said[1])
              THEN Said
              ELSE None

\* the recorded path was reported for the second of two roots, after its
\* root directory was deleted with everything in it
C9_Witness ==
    /\ lastq.fresh
    /\ lastq.roots = <<R2, R1>>
    /\ lastq.value = Some(FooPy)
    /\ ~Exists(disk, R1)
    /\ LAST["bar"] # None

\* a record exists and its path is under a root, but the file is still there
C9_WitnessPresent ==
    /\ lastq.fresh
    /\ Said # None
    /\ SaidUnderSomeRoot
    /\ Exists(disk, Said[1])
    /\ lastq.value = None

----------------------------------------------------------------------------
(* Two threads calling resolve(), interleaved one store operation at a time *)

\* the calls the threads make
ConcCalls ==
    {<<"foo", R1, DefaultPolicy>>, <<"bar", R1, DefaultPolicy>>,
     <<"foo", R2, DefaultPolicy>>}

\* the store a step of resolve() operates on; each store guards one
\* operation at a time with its own lock
StoreOf(pc) ==
    CASE pc \in {"cache_get", "cache_drop", "cache_put"} -> {"cache"}
      [] pc \in {"observe_py", "observe_cached", "deleted_paths", "observe"} -> {"observed"}
      [] pc \in {"get_index", "invalidate", "get_index2"} -> {"index"}
      [] OTHER -> {}

\* resolve() with one lock taken on entry and released on return
LocksAcross_WholeBody == {"resolve"}

\* the locks resolve() takes on entry and keeps until it returns: its body
\* acquires none
LocksAcross == {}

Active(p) == frames[p].pc \notin {"idle", "done"}

\* the thread's call has made a nested call that has not returned yet
Suspended(p) == \E q \in nested : q # p /\ Active(q)

\* the locks the thread's next step has to take
Needs(p) == IF frames[p].pc = "enter" THEN LocksAcross ELSE StoreOf(frames[p].pc)

\* none of them is held by the other call
CanStep(p) == \A q \in Procs \ {p} : Needs(p) \cap held[q] = {}

\* what is kept of a call that has returned
Returned(l) == [IdleFrame EXCEPT !.pc = "done", !.fullname = l.fullname,
                                 !.root = l.root, !.result = l.result]

ConcEnvUnchanged ==
    UNCHANGED <<disk, hostcfg, nobuild, last, since, nenv, LAST, lastq>>

\* thread p calls resolve(); inside says whether the call is made from
\* within the other thread's call that is under way
Call(p, c, inside) ==
    /\ ~Active(p)
    /\ nbegin < MaxBegin
    /\ inside => \E q \in Procs \ {p} :
                    /\ Active(q)
                    /\ frames[q].pc # "enter"
                    /\ frames[q].fullname # c[1]
                    /\ q \notin nested
    /\ nbegin' = nbegin + 1
    /\ frames' = [frames EXCEPT ![p] =
                     [NewFrame(c[1], c[2], c[3], ExcludeNone, MaxFilesArg)
                         EXCEPT !.pc = "enter"]]
    /\ nested' = IF inside THEN {p} ELSE nested \ {p}
    /\ UNCHANGED <<held, cache, observed, memo>>
    /\ ConcEnvUnchanged

\* thread p enters the body of resolve()
Enter(p) ==
    /\ frames[p].pc = "enter"
    /\ ~Suspended(p)
    /\ CanStep(p)
    /\ frames' = [frames EXCEPT ![p].pc = "gate"]
    /\ held' = [held EXCEPT ![p] = LocksAcross]
    /\ UNCHANGED <<nested, nbegin, cache, observed, memo>>
    /\ ConcEnvUnchanged

\* thread p takes the next step of its call
StepProc(p) ==
    /\ Active(p)
    /\ frames[p].pc # "enter"
    /\ ~Suspended(p)
    /\ CanStep(p)
    /\ LET r == Step(Stores, frames[p], Env)
       IN  /\ cache' = r.g.cache
           /\ observed' = r.g.observed
           /\ memo' = r.g.memo
           /\ frames' = [frames EXCEPT ![p] = IF r.l.pc = "done"
                                              THEN Returned(r.l) ELSE r.l]
           /\ held' = [held EXCEPT ![p] = IF r.l.pc = "done" THEN {} ELSE @]
           /\ nested' = IF r.l.pc = "done" THEN nested \ {p} ELSE nested
    /\ UNCHANGED nbegin
    /\ ConcEnvUnchanged

NextConc ==
    \/ \E p \in Procs, c \in ConcCalls, inside \in BOOLEAN : Call(p, c, inside)
    \/ \E p \in Procs : Enter(p)
    \/ \E p \in Procs : StepProc(p)

SpecConc == Init /\ [][NextConc]_vars

\* a thread that can run is eventually run
SpecConcFair ==
    SpecConc /\ \A p \in Procs : WF_vars(Enter(p)) /\ WF_vars(StepProc(p))

----------------------------------------------------------------------------
(* C10 *)

\* C10: resolve() holds no lock across its body: in every interleaving of
\* two calls, one store operation at a time, a nested call of another name
\* included, a call that is under way and not itself waiting for its nested
\* call to return can always take its next step, so nothing deadlocks or
\* waits for the other call; and a call that has returned has an outcome.
NoWaiting ==
    \A p \in Procs :
        /\ held[p] = {}
        /\ (Active(p) /\ ~Suspended(p)) => CanStep(p)
        /\ Suspended(p) => \E q \in nested : Active(q) /\ CanStep(q)
        /\ frames[p].pc = "done" =>
               frames[p].result.type \in {"Unhandled", "Resolved", "Deleted"}

C10_NoLockAcross ==
    /\ []NoWaiting
    /\ \A p \in Procs : Active(p) ~> (frames[p].pc = "done")

\* both calls have returned after running interleaved, one nested in the
\* other, each in the middle of the other's store operations
C10_Witness ==
    /\ frames[1].pc = "done"
    /\ frames[2].pc = "done"
    /\ frames[1].fullname = "foo"
    /\ frames[2].fullname = "bar"
    /\ frames[1].result.type = "Resolved"
    /\ frames[2].result.type = "Resolved"
    /\ nbegin = 2

\* a nested call is at a store operation while the outer call is suspended
\* between two of its own
C10_WitnessNested ==
    /\ 2 \in nested
    /\ frames[2].pc = "cache_put"
    /\ frames[1].pc = "make_spec"
    /\ Suspended(1)

----------------------------------------------------------------------------
(* One thread calling resolve() while files come and go under it *)

\* the policies of the calls: root r1 managed, cache on or off, deletion
\* diagnosis on or off
RacePolicies ==
    {pol \in Policies : pol.roots = <<>> /\ pol.deny = {}}

RaceCalls == {<<"foo", R1, pol>> : pol \in RacePolicies}

\* the files that come and go
Racing == {FooPy, FooPkg}

\* a file is created or deleted, between two calls or between two steps of
\* a call
RaceEnv(p, v) ==
    /\ nenv < MaxRaceEnv
    /\ disk[p] # v
    /\ Exists(disk, RootOf(p))
    /\ nenv' = nenv + 1
    /\ disk' = [disk EXCEPT ![p] = v]
    /\ UNCHANGED <<hostcfg, nobuild, cache, observed, memo, last, since,
                   LAST, lastq>>
    /\ ConcUnchanged

\* the thread takes the next step of its call; the frame is kept as it is
\* when the call returns
RaceStep(p) ==
    /\ Active(p)
    /\ frames[p].pc # "enter"
    /\ LET r == Step(Stores, frames[p], Env)
       IN  /\ cache' = r.g.cache
           /\ observed' = r.g.observed
           /\ memo' = r.g.memo
           /\ frames' = [frames EXCEPT ![p] = r.l]
    /\ UNCHANGED <<held, nested, nbegin>>
    /\ ConcEnvUnchanged

NextRace ==
    \/ \E c \in RaceCalls : Call(1, c, FALSE)
    \/ Enter(1)
    \/ RaceStep(1)
    \/ \E p \in Racing : RaceEnv(p, 0)
    \/ \E p \in Racing : RaceEnv(p, 1)
    \/ \E p \in Fragile : SetBuild(p)

SpecRace == Init /\ [][NextRace]_vars

\* the thread is eventually run
SpecRaceFair == SpecRace /\ WF_vars(Enter(1)) /\ WF_vars(RaceStep(1))

----------------------------------------------------------------------------
(* C11 *)

\* the call of the racing thread
RF == frames[1]

\* the managed roots of a call: policy.roots, or the invocation root
ManagedRootsOf(f) == IF f.policy.roots # <<>> THEN f.policy.roots ELSE <<f.root>>

UnderManagedOf(f, p) ==
    \E i \in 1..Len(ManagedRootsOf(f)) : IsPrefix(ManagedRootsOf(f)[i], p)

\* the call is about to run a deletion diagnosis after its retry
DiagnosisAfterRetry == RF.pc = "deleted_paths" /\ RF.n_invalidate = 1

\* C11: expanded hint set after the retry. Every deletion diagnosis made
\* after the index was invalidated and rescanned uses a hint set that holds
\* the first candidate's path; so with no Cache Entry and no Observed Record
\* for the name, and that path under a managed root and missing from disk,
\* the call returns Deleted with that path.
C11_ExpandedHints ==
    DiagnosisAfterRetry =>
        /\ RF.first.path \in SeqToSet(RF.diag_hints)
        /\ ( /\ cache[RF.fullname] = None
             /\ observed[RF.fullname] = None
             /\ UnderManagedOf(RF, RF.first.path)
             /\ ~Exists(disk, RF.first.path) )
           => LET out == Step(Stores, RF, Env).l.result
              IN  /\ out.type = "Deleted"
                  /\ RF.first.path \in SeqToSet(out.last_known_paths)

----------------------------------------------------------------------------
(* C12 *)

\* what the rescan listed for the name of the call
Rescanned ==
    get_index(Stores, Env, RF.root, RF.exclude_dirs, RF.max_files).idx[RF.fullname]

\* the first verification failed, the rescan listed exactly one candidate,
\* and that candidate verifies now that it is verified again
RetryVerifies ==
    /\ RF.pc = "verify2"
    /\ Len(Rescanned) = 1
    /\ verify_candidate(disk, Rescanned[1]).ok

\* the call returns Resolved with the rescanned candidate, and with the
\* cache enabled the Cache Entry pairs it with its own fingerprint
Recovered ==
    LET c2 == Rescanned[1]
        r == Run(Stores, RF, Env)
    IN  /\ r.l.result.type = "Resolved"
        /\ r.l.result.candidate = Some(c2)
        /\ r.l.result.fullname = RF.fullname
        /\ RF.policy.cache_enabled =>
              r.g.cache[RF.fullname] =
                  Some(CacheEntry(c2, verify_candidate(disk, c2).fp))

\* C12 as stated: stale/race recovery. When the first verification of the
\* sole scanned candidate fails and the rescan yields exactly one candidate
\* that verifies, the call returns Resolved with the rescanned candidate and
\* caches it with the fingerprint of its own verification.
C12_RaceRecovery == RetryVerifies => Recovered

\* C12, amended: the same, provided the descriptor builder builds a
\* descriptor for the rescanned candidate.
C12_RaceRecoveryAmended ==
    (RetryVerifies /\ make_spec(Env, RF.fullname, Rescanned[1]) # None)
        => Recovered

\* the retry is about to verify a candidate other than the first one, the
\* first having vanished after the scan, with the cache enabled
C12_Witness ==
    /\ RetryVerifies
    /\ RF.first # Rescanned[1]
    /\ ~Exists(disk, RF.first.path)
    /\ RF.policy.cache_enabled
    /\ RF.policy.raise_on_deleted
    /\ make_spec(Env, RF.fullname, Rescanned[1]) # None

----------------------------------------------------------------------------
(* C13 *)

\* what a call has spent so far
WithinBounds ==
    /\ RF.n_invalidate <= 1
    /\ RF.n_get_index <= 2
    /\ RF.n_verify <= 3
    /\ RF.n_verify <= (IF RF.cached # None THEN 1 ELSE 0) + 2
    /\ RF.pc = "done" => RF.result.type \in {"Unhandled", "Resolved", "Deleted"}

\* C13: bounded retry. However files come and go while it runs, every call
\* returns one outcome, after at most one invalidate_index, two get_index
\* and three verifications (one for the cache entry, two on the scan path).
C13_BoundedRetry ==
    /\ []WithinBounds
    /\ Active(1) ~> (RF.pc = "done")

\* a call returned after a stale cache entry, a failed first verification,
\* one invalidation, a rescan and a second verification
C13_Witness ==
    /\ RF.pc = "done"
    /\ RF.n_invalidate = 1
    /\ RF.n_get_index = 2
    /\ RF.n_verify = 3
    /\ nenv = MaxRaceEnv

----------------------------------------------------------------------------
(* C14 *)

\* C14: cache_enabled gates the Resolution Cache. A call made with
\* cache_enabled = false performs no cache get, put or drop and leaves the
\* Resolution Cache as it was, whatever the outcome.
C14_CacheGate ==
    [][(last'.fresh /\ ~last.fresh /\ ~last'.f.policy.cache_enabled)
          => (cache' = cache /\ last'.f.n_cache = 0)]_vars

\* a call without the cache returned while a stale entry for its name,
\* written by an earlier call, stays in the cache
C14_Witness ==
    /\ last.fresh
    /\ ~F.policy.cache_enabled
    /\ cache[F.fullname] # None
    /\ ~Exists(disk, cache[F.fullname][1].candidate.path)
    /\ F.n_get_index > 0

\* a call without the cache returned Resolved and wrote no entry
C14_WitnessResolved ==
    /\ last.fresh
    /\ ~F.policy.cache_enabled
    /\ Out.type = "Resolved"
    /\ cache[F.fullname] = None

----------------------------------------------------------------------------
(* C15 *)

\* the location a call resolved its name to, as an option of the record it
\* stands for: the host's file-backed origin if the host was asked and
\* answered, else the candidate of a Resolved outcome
ResolvedLocation(f) ==
    IF f.n_host > 0 /\ python_find_spec(Env, f.fullname) # None
    THEN LET h == python_find_spec(Env, f.fullname)[1]
         IN  IF h.tag = "file" /\ h.path # <<>>
             THEN Some(CandidateOf(_norm_abs(h.path)))
             ELSE None
    ELSE IF f.result.type = "Resolved"
         THEN f.result.candidate
         ELSE None

\* C15: Observed Records are last-write-wins and root-gated. After a call
\* the record of its name is the location the name resolved to, by the host
\* or by resolve(), if that location is under a managed root, and is what it
\* was otherwise; no other name's record is written, none is removed, and a
\* call that resolves nothing writes none.
C15_ObservedRecords ==
    [][(last'.fresh /\ ~last.fresh) =>
          LET f == last'.f
              loc == ResolvedLocation(f)
          IN  /\ \A n \in Names \ {f.fullname} : observed'[n] = observed[n]
              /\ \A n \in Names : observed[n] # None => observed'[n] # None
              /\ f.fullname \in Names =>
                    observed'[f.fullname] =
                        IF loc # None /\ UnderManagedOf(f, _norm_abs(loc[1].path))
                        THEN loc
                        ELSE observed[f.fullname]]_vars

\* a Resolved outcome outside the managed roots left in place the record of
\* another location written by an earlier call
C15_Witness ==
    /\ last.fresh
    /\ Out.type = "Resolved"
    /\ ~UnderManaged(Out.candidate[1].path)
    /\ observed[F.fullname] # None
    /\ observed[F.fullname] # Out.candidate

\* the host resolved the name to a file under a managed root and the record
\* holds that file
C15_WitnessHost ==
    /\ last.fresh
    /\ F.n_host > 0
    /\ HostResolves(F.fullname)
    /\ observed[F.fullname] = Some(CandidateOf(FooPy))

----------------------------------------------------------------------------
(* C16 *)

\* the call verified a scanned candidate for which the builder builds
\* nothing
ScannedBuildFails(f) ==
    /\ f.picked # NoCand
    /\ f.fp # None
    /\ make_spec(Env, f.fullname, f.picked) = None

\* the call was made with the cache enabled, passed the gates and the host,
\* and found a valid Cache Entry for whose candidate the builder builds
\* nothing
CachedBuildFails(f) ==
    /\ f.policy.cache_enabled
    /\ f.n_host > 0
    /\ python_find_spec(Env, f.fullname) = None
    /\ cache[f.fullname] # None
    /\ LET c == cache[f.fullname][1]
           v == verify_candidate(disk, c.candidate)
       IN  /\ v.ok
           /\ v.fp = c.fp
           /\ make_spec(Env, f.fullname, c.candidate) = None

\* C16: soft build failure. When the builder returns none for the verified
\* scanned candidate the call returns Unhandled and writes no Cache Entry
\* and no Observed Record; when it returns none for a valid cached candidate
\* the call drops the entry and goes on to the index scan instead of
\* returning from the cache; Resolved never comes without a descriptor.
C16_SoftBuildFailure ==
    [][(last'.fresh /\ ~last.fresh) =>
          LET f == last'.f
          IN  /\ ScannedBuildFails(f) =>
                    /\ f.result = UNHANDLED
                    /\ observed' = observed
                    /\ \A n \in Names : cache'[n] \in {None, cache[n]}
              /\ CachedBuildFails(f) =>
                    /\ f.via # "cache"
                    /\ f.n_get_index >= 1
                    /\ cache'[f.fullname] # cache[f.fullname]
              /\ f.result.type = "Resolved" =>
                    /\ f.result.candidate # None
                    /\ f.result.spec # None
                    /\ f.result.spec =
                          make_spec(Env, f.fullname, f.result.candidate[1])]_vars

\* the builder failed for a valid cached candidate and again for the same
\* file found by the scan; the call returned Unhandled with the entry gone
C16_Witness ==
    /\ last.fresh
    /\ F.cached # None
    /\ F.n_build = 2
    /\ ScannedBuildFails(F)
    /\ Out = UNHANDLED
    /\ cache[F.fullname] = None

\* the builder failed for the scanned candidate of a call that found no
\* Cache Entry
C16_WitnessScan ==
    /\ last.fresh
    /\ F.cached = None
    /\ F.policy.cache_enabled
    /\ ScannedBuildFails(F)
    /\ Out = UNHANDLED

----------------------------------------------------------------------------
(* C17 *)

\* what an Observed Record can hold
ObservedValues == {None, Some(CandidateOf(FooPy)), Some(CandidateOf(FooPy2))}

\* the Observed Records with the record of one name replaced
ObservedAlts == {[observed EXCEPT ![n] = v] : n \in Names, v \in ObservedValues}

\* resolve() run from the current stores with other Observed Records
TwinRun(c, alt) ==
    resolve([Stores EXCEPT !.observed = alt], Env, c[1], c[2], c[3],
            ExcludeNone, MaxFilesArg)

HereRun(c) == resolve(Stores, Env, c[1], c[2], c[3], ExcludeNone, MaxFilesArg)

\* C17: Observed Records never influence resolution. Two runs of the same
\* call from states that differ only in the Observed Records both return
\* Resolved, with the same candidate, or neither does, and leave the same
\* Resolution Cache; they differ at most in Deleted against Unhandled.
C17_ObservedNeverResolves ==
    ~last.fresh =>
        \A c \in Calls :
            LET a == HereRun(c)
                here == [cache |-> a.g.cache, result |-> a.l.result]
            IN  \A alt \in ObservedAlts \ {observed} :
                    LET b == TwinRun(c, alt)
                        twin == [cache |-> b.g.cache, result |-> b.l.result]
                    IN  \/ twin = here
                        \/ /\ twin.cache = here.cache
                           /\ {twin.result.type, here.result.type}
                                  \subseteq {"Deleted", "Unhandled"}

\* the same call returns Deleted here and Unhandled without the record
C17_Witness ==
    /\ ~last.fresh
    /\ \E c \in Calls :
          /\ observed[c[1]] # None
          /\ HereRun(c).l.result.type = "Deleted"
          /\ TwinRun(c, [observed EXCEPT ![c[1]] = None]).l.result = UNHANDLED

\* the same call returns Resolved from the cache here and with a record that
\* names another file
C17_WitnessResolved ==
    /\ ~last.fresh
    /\ \E c \in Calls :
          /\ HereRun(c).l.result.type = "Resolved"
          /\ HereRun(c).l.via = "cache"
          /\ observed[c[1]] # Some(CandidateOf(FooPy2))
          /\ TwinRun(c, [observed EXCEPT ![c[1]] = Some(CandidateOf(FooPy2))]).l.result.type
                = "Resolved"

----------------------------------------------------------------------------
(* C18 *)

\* resolve() run from the stores another call has left
RunAfter(c, b) ==
    resolve(HereRun(b).g, Env, c[1], c[2], c[3], ExcludeNone, MaxFilesArg)

\* C18: isolation of unrelated names. With the file system as it is, a call
\* for a name returns the same outcome whether or not a call for another
\* name runs just before it, the other call's invalidate_index included.
C18_Isolation ==
    ~last.fresh =>
        \A a \in Calls, b \in Calls :
            a[1] # b[1] => RunAfter(a, b).l.result = HereRun(a).l.result

----------------------------------------------------------------------------
(* C19 *)

\* C19: Resolved locations belong to the requested root. Every Resolved
\* outcome of a call carries a candidate whose path is under the root the
\* call was made with, also when it is served from a Cache Entry that a call
\* with another root wrote.
C19_ResolvedUnderRoot ==
    (last.fresh /\ Out.type = "Resolved")
        => IsPrefix(_norm_abs(F.root), _norm_abs(Out.candidate[1].path))

====
